---------------------------- MODULE Spec2Model ----------------------------
(***************************************************************************)
(* The machine model of Duet Web Control (store/machine/model.js): the     *)
(* MachineModel tree, the Vuex module wrapped around it and its mutations  *)
(* update, addPlugin and removePlugin.                                     *)
(*                                                                         *)
(* JavaScript values are tagged records, so that the structural kind of a  *)
(* value (scalar, object, array) is something the model can look at:       *)
(*   Null, Bool(b), Num(n), Str(s)   scalars                               *)
(*   Obj(c, f)   an object of class c; f maps its own property names to    *)
(*               values (a property that is not in DOMAIN f is absent)     *)
(*   Arr(e)      an array; e is the sequence of its elements               *)
(***************************************************************************)
EXTENDS Integers, Sequences, FiniteSets, TLC

VARIABLES
    state,      \* MachineModelModule.state: the live MachineModel tree
    payload,    \* the object handed to the last mutation, as the call left it
    op,         \* the last mutation committed: "init", "update", "addPlugin", "removePlugin"
    arg,        \* the object handed to the last mutation, as it was handed in
    before,     \* the tree as it was when the last mutation was called
    outcome,    \* "ok", or "SchemaMismatch" when the last call threw
    repeatOf,   \* the last call repeated the delta of a successful, discriminant-changing update
    calls,      \* number of mutations committed so far
    returned,   \* the getter evaluated last and the value it returned (by the last mutation: none)
    modules,    \* the MachineModelModule objects there are: for each its connector and which tree its state is
    trees,      \* the MachineModel objects there are; a plugins map holds references to plugin objects
    objects,    \* the plugin objects there are, those the callers hold included
    target      \* the module the last call was about

\* The objects of the store, by identity
store == <<modules, trees, objects, target>>

vars == <<state, payload, op, arg, before, outcome, repeatOf, calls, returned,
          modules, trees, objects, target>>

---------------------------------------------------------------------------
(* Bounds of the model *)

MaxCalls == 3

\* Number of deltas applied to the tree the getters are evaluated on
MaxDeltas == 2

\* Length of the lists of heaters maxHeaterTemperature is evaluated on
MaxHeaters == 3

\* Number of module objects, the default module included
MaxModules == 3

---------------------------------------------------------------------------
(* JavaScript values *)

Undefined == [k |-> "undefined"]

Null == [k |-> "null"]

Bool(b) == [k |-> "bool", b |-> b]

Num(n) == [k |-> "num", n |-> n]

Str(s) == [k |-> "str", s |-> s]

Obj(c, f) == [k |-> "obj", c |-> c, f |-> f]

Arr(e) == [k |-> "arr", e |-> e]

\* {} : a plain object without properties
EmptyObject == Obj("Object", <<>>)

\* A plain object literal
Plain(f) == Obj("Object", f)

IsObj(v) == v.k = "obj"

IsArr(v) == v.k = "arr"

\* JavaScript truthiness: null, undefined, false, 0 and '' are falsy
Truthy(v) ==
    CASE v.k = "undefined" -> FALSE
      [] v.k = "null" -> FALSE
      [] v.k = "bool" -> v.b
      [] v.k = "num" -> v.n # 0
      [] v.k = "str" -> v.s # ""
      [] OTHER -> TRUE

\* key in o (own property)
Has(o, key) == IsObj(o) /\ key \in DOMAIN o.f

\* o[key]: undefined when o has no such property
Prop(o, key) == IF Has(o, key) THEN o.f[key] ELSE Undefined

\* o[key] = v / Vue.set(o, key, v)
Set(o, key, v) ==
    [o EXCEPT !.f = [x \in DOMAIN o.f \cup {key} |-> IF x = key THEN v ELSE o.f[x]]]

\* delete o[key] / Vue.delete(o, key): no effect when the key is absent
Delete(o, key) ==
    [o EXCEPT !.f = [x \in DOMAIN o.f \ {key} |-> o.f[x]]]

Max(a, b) == IF a >= b THEN a ELSE b

\* Infinity and NaN: what a division by zero gives
NotFinite == [k |-> "notfinite"]

\* ToNumber of the values that stand where a number is expected: null and
\* false count as 0
ToNumber(v) ==
    CASE v.k = "num" -> v.n
      [] v.k = "bool" -> IF v.b THEN 1 ELSE 0
      [] OTHER -> 0

\* The value is one the relational operators compare as a number (with
\* undefined, which is NaN, every comparison is false)
IsNumeric(v) == v.k \in {"num", "null", "bool"}

\* a > b and a >= b
Greater(a, b) == IsNumeric(a) /\ IsNumeric(b) /\ ToNumber(a) > ToNumber(b)

GreaterEq(a, b) == IsNumeric(a) /\ IsNumeric(b) /\ ToNumber(a) >= ToNumber(b)

Abs(n) == IF n < 0 THEN -n ELSE n

RECURSIVE GCD(_, _)
GCD(a, b) == IF b = 0 THEN a ELSE GCD(b, a % b)

\* x / y for integers: the quotient in lowest terms, n over d (d is left out
\* when it is 1, so that a whole quotient is the number itself)
Quotient(x, y) ==
    IF y = 0 THEN NotFinite
    ELSE LET g == GCD(Abs(x), Abs(y))
             n == (IF y < 0 THEN -1 ELSE 1) * (x \div g)
             d == Abs(y) \div g
         IN  IF d = 1 THEN Num(n) ELSE [k |-> "num", n |-> n, d |-> d]

\* a / b
Divide(a, b) == Quotient(ToNumber(a), ToNumber(b))

Denominator(v) == IF "d" \in DOMAIN v THEN v.d ELSE 1

\* Math.min(a, b) of two finite numbers
MathMin(a, b) == IF a.n * Denominator(b) <= b.n * Denominator(a) THEN a ELSE b

\* a.reduce((x, y) => x + y) of a sequence of numbers
RECURSIVE Sum(_)
Sum(e) == IF e = <<>> THEN 0 ELSE ToNumber(Head(e)) + Sum(Tail(e))

---------------------------------------------------------------------------
(* utils/patch.js: the generic merge.  patch(a, b, fromModel) merges the   *)
(* delta b into a.  A delta property overwrites a scalar, is merged into   *)
(* an object property by property and into an array index by index (an     *)
(* array is extended when the delta is longer and is never truncated).     *)
(* With fromModel set, a is a schema instance: a delta property the schema *)
(* does not have is ignored, and a delta property whose structural kind    *)
(* disagrees with the schema is a SchemaMismatch, which fails the call     *)
(* before anything is merged.                                              *)

\* Both are objects, or both are arrays: the delta value is merged into the live one
Mergeable(x, y) == (IsObj(x) /\ IsObj(y)) \/ (IsArr(x) /\ IsArr(y))

\* The live value is an object or an array and the delta value is of another
\* kind (an explicit null is a replacement, not a mismatch)
KindConflict(x, y) == (IsObj(x) \/ IsArr(x)) /\ y.k \notin {x.k, "null"}

RECURSIVE SchemaMismatch(_, _)
SchemaMismatch(a, b) ==
    IF IsObj(a) /\ IsObj(b)
    THEN \E key \in DOMAIN b.f \cap DOMAIN a.f :
            \/ KindConflict(a.f[key], b.f[key])
            \/ Mergeable(a.f[key], b.f[key]) /\ SchemaMismatch(a.f[key], b.f[key])
    ELSE IF IsArr(a) /\ IsArr(b)
    THEN \E i \in DOMAIN b.e \cap DOMAIN a.e :
            \/ KindConflict(a.e[i], b.e[i])
            \/ Mergeable(a.e[i], b.e[i]) /\ SchemaMismatch(a.e[i], b.e[i])
    ELSE FALSE

RECURSIVE patch(_, _, _)
patch(a, b, fromModel) ==
    IF IsObj(a) /\ IsObj(b)
    THEN LET keys == IF fromModel THEN DOMAIN b.f \cap DOMAIN a.f ELSE DOMAIN b.f
             merged(key) ==
                 IF key \in DOMAIN a.f /\ Mergeable(a.f[key], b.f[key])
                 THEN patch(a.f[key], b.f[key], fromModel)
                 ELSE b.f[key]
         IN  [a EXCEPT !.f = [key \in DOMAIN a.f \cup keys |->
                                 IF key \in keys THEN merged(key) ELSE a.f[key]]]
    ELSE IF IsArr(a) /\ IsArr(b)
    THEN LET merged(i) ==
                 IF i \in DOMAIN a.e /\ Mergeable(a.e[i], b.e[i])
                 THEN patch(a.e[i], b.e[i], fromModel)
                 ELSE b.e[i]
         IN  [a EXCEPT !.e = [i \in 1..Max(Len(a.e), Len(b.e)) |->
                                 IF i \in DOMAIN b.e THEN merged(i) ELSE a.e[i]]]
    ELSE b

\* quickPatch(a, b): the merge the constructors apply to their init data
quickPatch(a, b) == IF b = Undefined THEN a ELSE patch(a, b, FALSE)

---------------------------------------------------------------------------
(* store/machine/modelEnums.js and modelItems.js: the kinematics names and *)
(* the item classes the model tree is built from                           *)

\* KinematicsName: the discriminants the switch of update knows
KinematicsName ==
    {"cartesian", "coreXY", "coreXYU", "coreXYUV", "coreXZ", "markForged",
     "delta", "rotaryDelta", "hangprinter", "fiveBarScara", "scara"}

IdentityMatrix == Arr(<<Arr(<<Num(1), Num(0)>>), Arr(<<Num(0), Num(1)>>)>>)

\* The fields every kinematics variant shares
KinematicsBase == [name |-> Str("unknown"), segmentation |-> Null]

\* new Kinematics(): the base shape
Kinematics == Obj("Kinematics", KinematicsBase)

\* new CoreKinematics()
CoreKinematics ==
    Obj("CoreKinematics",
        KinematicsBase @@ [forwardMatrix |-> IdentityMatrix, inverseMatrix |-> IdentityMatrix])

\* new DeltaKinematics()
DeltaKinematics ==
    Obj("DeltaKinematics", KinematicsBase @@ [diagonal |-> Num(0), printRadius |-> Num(0)])

\* new HangprinterKinematics()
HangprinterKinematics ==
    Obj("HangprinterKinematics", KinematicsBase @@ [anchors |-> Arr(<<>>), printRadius |-> Num(0)])

\* new ScaraKinematics()
ScaraKinematics == Obj("ScaraKinematics", KinematicsBase)

\* new Heater(initData)
Heater(initData) ==
    quickPatch(Obj("Heater", [current |-> Num(-273), max |-> Num(285), state |-> Null]), initData)

\* new ParsedFileInfo()
ParsedFileInfo ==
    Obj("ParsedFileInfo", [fileName |-> Null, filament |-> Arr(<<>>), size |-> Num(0)])

\* new Tool(initData)
Tool(initData) ==
    quickPatch(Obj("Tool", [number |-> Num(0), name |-> Str(""), heaters |-> Arr(<<>>),
                            extruders |-> Arr(<<>>), spindle |-> Num(-1)]), initData)

\* new ClassType(initData)
New(ClassType, initData) ==
    IF ClassType = "Heater" THEN Heater(initData) ELSE Tool(initData)

\* fixItems(items, ClassType): the entities a null entry of the delta removed
\* are taken out of the list (the later ones move down) and every plain
\* object left is made an instance of the list's class
RECURSIVE fixItems(_, _)
fixItems(items, ClassType) ==
    IF items = <<>> THEN <<>>
    ELSE LET item == Head(items)
         IN  IF item = Null THEN fixItems(Tail(items), ClassType)
             ELSE IF IsObj(item) /\ item.c # ClassType
                  THEN <<New(ClassType, Plain(item.f))>> \o fixItems(Tail(items), ClassType)
                  ELSE <<item>> \o fixItems(Tail(items), ClassType)

\* fixMachineItems(state, mergeData): fixes the entity lists the delta names
fixMachineItems(s, mergeData) ==
    LET s1 == IF IsArr(Prop(Prop(mergeData, "heat"), "heaters"))
                     /\ IsArr(Prop(Prop(s, "heat"), "heaters"))
              THEN [s EXCEPT !.f.heat.f.heaters.e = fixItems(@, "Heater")]
              ELSE s
    IN  IF IsArr(Prop(mergeData, "tools")) /\ IsArr(Prop(s1, "tools"))
        THEN [s1 EXCEPT !.f.tools.e = fixItems(@, "Tool")]
        ELSE s1

---------------------------------------------------------------------------
(* class MachineModel: the schema and its defaults.  The fields kept are   *)
(* the ones whose defaults the class body spells out as literals.          *)

MachineModelDefaults ==
    Obj("MachineModel", [
        boards |-> Arr(<<>>),
        fans |-> Arr(<<>>),
        global |-> EmptyObject,
        heat |-> Plain([
            bedHeaters |-> Arr(<<>>),
            chamberHeaters |-> Arr(<<>>),
            coldExtrudeTemperature |-> Num(160),
            coldRetractTemperature |-> Num(90),
            heaters |-> Arr(<<>>)]),
        httpEndpoints |-> Arr(<<>>),
        job |-> Plain([
            build |-> Null,
            duration |-> Null,
            file |-> ParsedFileInfo,
            filePosition |-> Null,
            lastDuration |-> Null,
            lastFileName |-> Null,
            lastFileAborted |-> Bool(FALSE),
            lastFileCancelled |-> Bool(FALSE),
            lastFileSimulated |-> Bool(FALSE),
            layer |-> Null,
            layerTime |-> Null,
            layers |-> Arr(<<>>),
            pauseDuration |-> Null,
            rawExtrusion |-> Null,
            timesLeft |-> Plain([filament |-> Null, file |-> Null, layer |-> Null, slicer |-> Null]),
            warmUpDuration |-> Null]),
        messages |-> Arr(<<>>),
        move |-> Plain([
            axes |-> Arr(<<>>),
            calibration |-> Plain([
                final |-> Plain([deviation |-> Num(0), mean |-> Num(0)]),
                initial |-> Plain([deviation |-> Num(0), mean |-> Num(0)]),
                numFactors |-> Num(0)]),
            currentMove |-> Plain([
                acceleration |-> Num(0),
                deceleration |-> Num(0),
                laserPwm |-> Null,
                requestedSpeed |-> Num(0),
                topSpeed |-> Num(0)]),
            extruders |-> Arr(<<>>),
            kinematics |-> Kinematics,
            queue |-> Arr(<<>>),
            printingAcceleration |-> Num(10000),
            speedFactor |-> Num(1),
            travelAcceleration |-> Num(10000),
            virtualEPos |-> Num(0),
            workplaceNumber |-> Num(1)]),
        network |-> Plain([
            corsSite |-> Null,
            hostname |-> Str("duet"),
            interfaces |-> Arr(<<>>),
            name |-> Str("My Duet")]),
        plugins |-> EmptyObject,
        scanner |-> Plain([progress |-> Num(0), status |-> Str("D")]),
        sensors |-> Plain([
            analog |-> Arr(<<>>),
            endstops |-> Arr(<<>>),
            filamentMonitors |-> Arr(<<>>),
            gpIn |-> Arr(<<>>),
            probes |-> Arr(<<>>)]),
        spindles |-> Arr(<<>>),
        state |-> Plain([
            atxPower |-> Null,
            beep |-> Null,
            currentTool |-> Num(-1),
            displayMessage |-> Str(""),
            dsfVersion |-> Null,
            dsfPluginSupport |-> Bool(TRUE),
            dsfRootPluginSupport |-> Bool(FALSE),
            gpOut |-> Arr(<<>>),
            laserPwm |-> Null,
            logFile |-> Null,
            messageBox |-> Null,
            msUpTime |-> Num(0),
            nextTool |-> Num(-1),
            pluginsStarted |-> Bool(FALSE),
            powerFailScript |-> Str(""),
            previousTool |-> Num(-1),
            restorePoints |-> Arr(<<>>),
            status |-> Null,
            time |-> Null,
            upTime |-> Num(-1)]),
        tools |-> Arr(<<>>),
        userSessions |-> Arr(<<>>),
        volumes |-> Arr(<<>>)])

\* Mutant of MachineModel: the init data is assigned field by field of the
\* tree, not merged into it
MachineModel_assign(initData) ==
    IF initData = Undefined THEN MachineModelDefaults
    ELSE [MachineModelDefaults EXCEPT !.f =
            [key \in DOMAIN MachineModelDefaults.f \cup DOMAIN initData.f |->
                IF key \in DOMAIN initData.f THEN initData.f[key]
                ELSE MachineModelDefaults.f[key]]]

\* new MachineModel(initData)
MachineModel(initData) == quickPatch(MachineModelDefaults, initData)

\* The connector the module is built for
ConnectorHostname == "printer"

\* new MachineModelModule(connector).state, for a connector
ConnectedModel ==
    MachineModel(Plain([network |-> Plain([
        hostname |-> Str(ConnectorHostname),
        name |-> Str("(" \o ConnectorHostname \o ")")])]))

\* new Board(initData), new Fan(initData), new Axis(initData), new
\* Extruder(initData), new Probe(initData): an instance of the class with the
\* init data merged into it
Board(initData) == quickPatch(Obj("Board", <<>>), initData)

Fan(initData) == quickPatch(Obj("Fan", <<>>), initData)

Axis(initData) == quickPatch(Obj("Axis", <<>>), initData)

Extruder(initData) == quickPatch(Obj("Extruder", <<>>), initData)

Probe(initData) == quickPatch(Obj("Probe", <<>>), initData)

\* An axis of the default machine model
DefaultAxis(letter, drive) ==
    Axis(Plain([letter |-> Str(letter), drives |-> Arr(<<Num(drive)>>), homed |-> Bool(TRUE),
                machinePosition |-> Num(0), userPosition |-> Num(0)]))

\* A tool of the default machine model
DefaultTool(number, heater, extruder) ==
    Tool(Plain([number |-> Num(number), active |-> Arr(<<Num(0)>>), standby |-> Arr(<<Num(0)>>),
                heaters |-> Arr(<<Num(heater)>>), extruders |-> Arr(<<Num(extruder)>>),
                spindle |-> Num(-1), spindleRpm |-> Num(0)]))

\* DefaultMachineModel: the machine model used to display initial values
DefaultMachineModel ==
    MachineModel(Plain([
        boards |-> Arr(<<Board(Undefined)>>),
        fans |-> Arr(<<Fan(Plain([value |-> Num(0)]))>>),
        heat |-> Plain([
            bedHeaters |-> Arr(<<Num(0)>>),
            heaters |-> Arr(<<Heater(Undefined), Heater(Undefined), Heater(Undefined)>>)]),
        move |-> Plain([
            axes |-> Arr(<<DefaultAxis("X", 0), DefaultAxis("Y", 1), DefaultAxis("Z", 2)>>),
            extruders |-> Arr(<<Extruder(Undefined), Extruder(Undefined)>>)]),
        network |-> Plain([name |-> Str("Duet Web Control")]),
        sensors |-> Plain([probes |-> Arr(<<Probe(Undefined)>>)]),
        tools |-> Arr(<<DefaultTool(0, 1, 0), DefaultTool(1, 2, 1)>>)]))

\* new MachineModelModule(connector).state for a connector: a new MachineModel
MachineModelModule(connector) ==
    MachineModel(Plain([network |-> Plain([
        hostname |-> Prop(connector, "hostname"),
        name |-> Str("(" \o Prop(connector, "hostname").s \o ")")])]))

---------------------------------------------------------------------------
(* MachineModelModule.mutations.update(state, payload)                     *)

\* Mutant of KinematicsChanges: === in place of !== in the comparison of the names
KinematicsChanges_sameName(s, p) ==
    /\ Truthy(Prop(p, "move"))
    /\ Truthy(Prop(Prop(p, "move"), "kinematics"))
    /\ Prop(Prop(Prop(p, "move"), "kinematics"), "name") # Undefined
    /\ s.f.move.f.kinematics.f.name = Prop(Prop(Prop(p, "move"), "kinematics"), "name")

\* Mutant of KinematicsChanges: the classes are compared, so that a new name
\* of the same variant does not count as a change
KinematicsChanges_variantDiffers(s, p) ==
    /\ Truthy(Prop(p, "move"))
    /\ Truthy(Prop(Prop(p, "move"), "kinematics"))
    /\ Prop(Prop(Prop(p, "move"), "kinematics"), "name") # Undefined
    /\ s.f.move.f.kinematics.f.name # Prop(Prop(Prop(p, "move"), "kinematics"), "name")
    /\ s.f.move.f.kinematics.c
           # (CASE p.f.move.f.kinematics.f.name \in {Str("cartesian"), Str("coreXY"),
                       Str("coreXYU"), Str("coreXYUV"), Str("coreXZ"), Str("markForged")}
                       -> "CoreKinematics"
               [] p.f.move.f.kinematics.f.name \in {Str("delta"), Str("rotaryDelta")}
                       -> "DeltaKinematics"
               [] p.f.move.f.kinematics.f.name = Str("hangprinter") -> "HangprinterKinematics"
               [] p.f.move.f.kinematics.f.name \in {Str("fiveBarScara"), Str("scara")}
                       -> "ScaraKinematics"
               [] OTHER -> "Kinematics")

\* The condition of the kinematics fix: the delta names a kinematics and the
\* name is not the live one
KinematicsChanges(s, p) ==
    /\ Truthy(Prop(p, "move"))
    /\ Truthy(Prop(Prop(p, "move"), "kinematics"))
    /\ Prop(Prop(Prop(p, "move"), "kinematics"), "name") # Undefined
    /\ s.f.move.f.kinematics.f.name # Prop(Prop(Prop(p, "move"), "kinematics"), "name")

\* Mutant of NewKinematics: the case label of rotaryDelta put with the Core names
NewKinematics_rotaryDeltaAsCore(name) ==
    CASE name \in {Str("cartesian"), Str("coreXY"), Str("coreXYU"), Str("coreXYUV"),
                   Str("coreXZ"), Str("markForged"), Str("rotaryDelta")} -> CoreKinematics
      [] name = Str("delta") -> DeltaKinematics
      [] name = Str("hangprinter") -> HangprinterKinematics
      [] name \in {Str("fiveBarScara"), Str("scara")} -> ScaraKinematics
      [] OTHER -> Kinematics

\* The switch over payload.move.kinematics.name
NewKinematics(name) ==
    CASE name \in {Str("cartesian"), Str("coreXY"), Str("coreXYU"), Str("coreXYUV"),
                   Str("coreXZ"), Str("markForged")} -> CoreKinematics
      [] name \in {Str("delta"), Str("rotaryDelta")} -> DeltaKinematics
      [] name = Str("hangprinter") -> HangprinterKinematics
      [] name \in {Str("fiveBarScara"), Str("scara")} -> ScaraKinematics
      [] OTHER -> Kinematics

\* Mutant of fixKinematics: the live name is not compared, every named
\* kinematics is instantiated anew
fixKinematics_always(s, p) ==
    IF Has(Prop(Prop(p, "move"), "kinematics"), "name")
    THEN [s EXCEPT !.f.move.f.kinematics = NewKinematics(p.f.move.f.kinematics.f.name)]
    ELSE s

\* Mutant of fixKinematics: without the default case of the switch, a name the
\* table does not have leaves the live instance in place
fixKinematics_knownOnly(s, p) ==
    IF KinematicsChanges(s, p)
           /\ p.f.move.f.kinematics.f.name \in {Str(n) : n \in KinematicsName}
    THEN [s EXCEPT !.f.move.f.kinematics = NewKinematics(p.f.move.f.kinematics.f.name)]
    ELSE s

\* Fix kinematics type
fixKinematics(s, p) ==
    IF KinematicsChanges(s, p)
    THEN [s EXCEPT !.f.move.f.kinematics = NewKinematics(p.f.move.f.kinematics.f.name)]
    ELSE s

\* One round of the loop over payload.global
updateGlobalKey(global, key, value) ==
    IF Truthy(Prop(global, key))
    THEN Set(global, key, value)
    ELSE Set(global, key, value)

RECURSIVE updateGlobalKeys(_, _, _)
updateGlobalKeys(global, delta, keys) ==
    IF keys = {} THEN global
    ELSE LET key == CHOOSE x \in keys : TRUE
         IN  updateGlobalKeys(updateGlobalKey(global, key, delta.f[key]), delta, keys \ {key})

\* Mutant of updateGlobal: the map is assigned instead of being updated key by key
updateGlobal_assign(s, p) ==
    IF Truthy(Prop(p, "global")) THEN [s EXCEPT !.f.global = p.f.global] ELSE s

\* Update global variables
updateGlobal(s, p) ==
    IF Truthy(Prop(p, "global"))
    THEN IF IsObj(p.f.global)
         THEN [s EXCEPT !.f.global = updateGlobalKeys(@, p.f.global, DOMAIN p.f.global.f)]
         ELSE s
    ELSE s

\* Mutant of updatePluginsKey: a falsy value is stored instead of deleting the key
updatePluginsKey_storeFalsy(plugins, key, value) ==
    IF ~Truthy(value) \/ ~Truthy(Prop(plugins, key))
    THEN Set(plugins, key, value)
    ELSE Set(plugins, key, patch(plugins.f[key], value, FALSE))

\* Mutant of updatePluginsKey: an existing entry is replaced instead of patched
updatePluginsKey_replace(plugins, key, value) ==
    IF ~Truthy(value)
    THEN Delete(plugins, key)
    ELSE Set(plugins, key, value)

\* Mutant of updatePluginsKey: a new entry is built from defaults and the value
\* merged into it
updatePluginsKey_defaulted(plugins, key, value) ==
    IF ~Truthy(value)
    THEN Delete(plugins, key)
    ELSE IF ~Truthy(Prop(plugins, key))
         THEN Set(plugins, key, patch(Plain([id |-> Str(key), version |-> Null]), value, FALSE))
         ELSE Set(plugins, key, patch(plugins.f[key], value, FALSE))

\* One round of the loop over payload.plugins
updatePluginsKey(plugins, key, value) ==
    IF ~Truthy(value)
    THEN Delete(plugins, key)
    ELSE IF ~Truthy(Prop(plugins, key))
         THEN Set(plugins, key, value)
         ELSE Set(plugins, key, patch(plugins.f[key], value, FALSE))

RECURSIVE updatePluginsKeys(_, _, _)
updatePluginsKeys(plugins, delta, keys) ==
    IF keys = {} THEN plugins
    ELSE LET key == CHOOSE x \in keys : TRUE
         IN  updatePluginsKeys(updatePluginsKey(plugins, key, delta.f[key]), delta, keys \ {key})

\* Mutant of updatePlugins: without the branch for payload.plugins === null
updatePlugins_noReset(s, p) ==
    IF IsObj(Prop(p, "plugins"))
    THEN [s EXCEPT !.f.plugins = updatePluginsKeys(@, p.f.plugins, DOMAIN p.f.plugins.f)]
    ELSE s

\* Mutant of updatePlugins: for payload.plugins === null the field is deleted
\* from the tree instead of being made an empty map
updatePlugins_deleteOnNull(s, p) ==
    IF Prop(p, "plugins") # Undefined
    THEN IF p.f.plugins = Null
         THEN Delete(s, "plugins")
         ELSE IF IsObj(p.f.plugins)
              THEN [s EXCEPT !.f.plugins = updatePluginsKeys(@, p.f.plugins, DOMAIN p.f.plugins.f)]
              ELSE s
    ELSE s

\* Update plugins
updatePlugins(s, p) ==
    IF Prop(p, "plugins") # Undefined
    THEN IF p.f.plugins = Null
         THEN [s EXCEPT !.f.plugins = EmptyObject]
         ELSE IF IsObj(p.f.plugins)
              THEN [s EXCEPT !.f.plugins = updatePluginsKeys(@, p.f.plugins, DOMAIN p.f.plugins.f)]
              ELSE s
    ELSE s

\* Mutant of consumed: without the delete payload.plugins after the loop
consumed_keepPlugins(p) ==
    IF Truthy(Prop(p, "global")) THEN Delete(p, "global") ELSE p

\* What the call leaves of the payload: delete payload.global, delete payload.plugins
consumed(p) ==
    LET p1 == IF Truthy(Prop(p, "global")) THEN Delete(p, "global") ELSE p
    IN  IF Prop(p1, "plugins") # Undefined THEN Delete(p1, "plugins") ELSE p1

\* Mutant of update: without the call of fixMachineItems after the merge
update_noFix(s, p) ==
    LET s3 == updatePlugins(updateGlobal(fixKinematics(s, p), p), p)
        p3 == consumed(p)
    IN  IF SchemaMismatch(s3, p3)
        THEN [state |-> s3, payload |-> p3, outcome |-> "SchemaMismatch"]
        ELSE [state |-> patch(s3, p3, TRUE), payload |-> p3, outcome |-> "ok"]

\* The whole mutation: the tree and the payload it leaves, and whether it threw
update(s, p) ==
    LET s3 == updatePlugins(updateGlobal(fixKinematics(s, p), p), p)
        p3 == consumed(p)
    IN  IF SchemaMismatch(s3, p3)
        THEN [state |-> s3, payload |-> p3, outcome |-> "SchemaMismatch"]
        ELSE [state |-> fixMachineItems(patch(s3, p3, TRUE), p3), payload |-> p3, outcome |-> "ok"]

\* Mutant of addPlugin: the plugin is merged into an entry that is there
addPlugin_merge(s, plugin) ==
    [s EXCEPT !.f.plugins = updatePluginsKey(@, plugin.f.id.s, plugin)]

\* Mutant of removePlugin: the map is emptied
removePlugin_clear(s, plugin) == [s EXCEPT !.f.plugins = EmptyObject]

\* MachineModelModule.mutations.addPlugin(state, plugin)
addPlugin(s, plugin) == [s EXCEPT !.f.plugins = Set(@, plugin.f.id.s, plugin)]

\* MachineModelModule.mutations.removePlugin(state, plugin)
removePlugin(s, plugin) == [s EXCEPT !.f.plugins = Delete(@, plugin.f.id.s)]

---------------------------------------------------------------------------
(* MachineModelModule.getters, and what they use of modelEnums.js          *)

\* StatusType.simulating
StatusTypeSimulating == Str("simulating")

\* isPrinting(status): the status is one of a job in progress
isPrinting(status) ==
    status \in {Str("pausing"), Str("paused"), Str("resuming"), Str("processing"),
                StatusTypeSimulating}

\* a[i] for an array a: undefined when a has no element at index i
Index(a, i) ==
    IF IsArr(a) /\ i.k = "num" /\ (i.n + 1) \in DOMAIN a.e THEN a.e[i.n + 1] ELSE Undefined

\* getters.currentTool(state)
currentTool(s) ==
    IF GreaterEq(s.f.state.f.currentTool, Num(0))
    THEN Index(s.f.tools, s.f.state.f.currentTool)
    ELSE Null

\* Mutant of fractionPrinted: the quotient without the test of the size
fractionPrinted_noGuard(s) == Divide(s.f.job.f.filePosition, s.f.job.f.file.f.size)

\* getters.fractionPrinted(state)
fractionPrinted(s) ==
    IF Greater(s.f.job.f.file.f.size, Num(0))
    THEN Divide(s.f.job.f.filePosition, s.f.job.f.file.f.size)
    ELSE Num(0)

\* Mutant of maxHeaterFold: without the comparison of the limits, the limit of
\* the last heater that is there is the one returned
RECURSIVE maxHeaterFold_last(_, _)
maxHeaterFold_last(heaters, maxTemp) ==
    IF heaters = <<>> THEN maxTemp
    ELSE LET heater == Head(heaters)
         IN  IF Truthy(heater)
             THEN maxHeaterFold_last(Tail(heaters), heater.f.max)
             ELSE maxHeaterFold_last(Tail(heaters), maxTemp)

\* state.heat.heaters.forEach(...): the rounds of the loop, from the value
\* maxTemp has before them
RECURSIVE maxHeaterFold(_, _)
maxHeaterFold(heaters, maxTemp) ==
    IF heaters = <<>> THEN maxTemp
    ELSE LET heater == Head(heaters)
         IN  IF Truthy(heater) /\ (maxTemp = Undefined \/ Greater(heater.f.max, maxTemp))
             THEN maxHeaterFold(Tail(heaters), heater.f.max)
             ELSE maxHeaterFold(Tail(heaters), maxTemp)

\* getters.maxHeaterTemperature(state)
maxHeaterTemperature(s) == maxHeaterFold(s.f.heat.f.heaters.e, Undefined)

\* state.move.extruders.map(extruder => extruder && extruder.rawPosition)
rawPositions(s) ==
    [i \in DOMAIN s.f.move.f.extruders.e |->
        LET extruder == s.f.move.f.extruders.e[i]
        IN  IF Truthy(extruder) THEN Prop(extruder, "rawPosition") ELSE extruder]

\* totalRawExtruded
totalRawExtruded(s) == IF Len(rawPositions(s)) = 0 THEN 0 ELSE Sum(rawPositions(s))

\* Mutant of jobProgress: the filament ratio is taken for every job in
\* progress that is not a simulation
jobProgress_filamentWhenPrinting(s) ==
    IF isPrinting(s.f.state.f.status)
    THEN IF s.f.state.f.status # StatusTypeSimulating
                /\ Len(s.f.job.f.file.f.filament.e) > 0 /\ totalRawExtruded(s) > 0
         THEN MathMin(Quotient(totalRawExtruded(s), Sum(s.f.job.f.file.f.filament.e)), Num(1))
         ELSE fractionPrinted(s)
    ELSE IF Truthy(s.f.job.f.lastFileName) THEN Num(1) ELSE Num(0)

\* getters.jobProgress(state, getters)
jobProgress(s) ==
    IF isPrinting(s.f.state.f.status)
    THEN IF s.f.state.f.status # StatusTypeSimulating
         THEN IF s.f.state.f.status = StatusTypeSimulating
                     /\ Len(s.f.job.f.file.f.filament.e) > 0 /\ totalRawExtruded(s) > 0
              THEN MathMin(Quotient(totalRawExtruded(s), Sum(s.f.job.f.file.f.filament.e)),
                           Num(1))
              ELSE fractionPrinted(s)
         ELSE fractionPrinted(s)
    ELSE IF Truthy(s.f.job.f.lastFileName) THEN Num(1) ELSE Num(0)

---------------------------------------------------------------------------
(* The deltas the connector hands to update, and the plugins handed to     *)
(* addPlugin and removePlugin                                              *)

SwappedMatrix == Arr(<<Arr(<<Num(0), Num(1)>>), Arr(<<Num(1), Num(0)>>)>>)

\* Values of payload.move.kinematics that name a kinematics and nothing else:
\* every name of the table, and one the table does not have
KinematicsNameDeltas == {Plain([name |-> Str(n)]) : n \in KinematicsName \cup {"bogus"}}

\* Values of payload.move.kinematics that carry fields of a variant
KinematicsDeltas ==
    {Plain([name |-> Str("delta"), diagonal |-> Num(215)]),
     Plain([name |-> Str("coreXY"), forwardMatrix |-> SwappedMatrix]),
     Plain([diagonal |-> Num(100)])}

\* Values of payload.global
GlobalDeltas ==
    {Plain([a |-> Num(1), b |-> Num(2)]),
     Plain([a |-> Null, c |-> Num(3)]),
     Plain([a |-> Plain([x |-> Num(1), y |-> Num(2)])]),
     Plain([a |-> Plain([x |-> Num(5)])])}

\* Values of payload.plugins
PluginsDeltas ==
    {Null,
     Plain([p |-> Plain([id |-> Str("p"), version |-> Num(1), status |-> Str("stopped")])]),
     Plain([p |-> Plain([status |-> Str("started")])]),
     Plain([p |-> Null, q |-> Plain([id |-> Str("q"), version |-> Num(1), status |-> Str("stopped")])]),
     Plain([p |-> Null, q |-> Bool(FALSE)])}

\* A field of the wrong structural kind: a number where the schema has an object
MismatchDelta == Plain([heat |-> Num(5)])

\* A delta of an entity list with a null entry
SparseDelta ==
    Plain([heat |-> Plain([heaters |-> Arr(<<Null, Plain([current |-> Num(205)])>>)])])

\* The rest of a payload
OtherDeltas ==
    {Plain([state |-> Plain([status |-> Str("idle")])]),
     Plain([move |-> Plain([speedFactor |-> Num(2)])]),
     MismatchDelta,
     Plain([heat |-> Plain([heaters |-> Arr(<<Plain([max |-> Num(300)]), Plain(<<>>),
                                               Plain([max |-> Num(250)])>>)])]),
     SparseDelta}

\* A payload put together from its parts; Undefined stands for a part left out
Delta(kinematics, global, plugins, other) ==
    LET d0 == IF other = Undefined THEN EmptyObject ELSE other
        d1 == IF kinematics = Undefined THEN d0
              ELSE patch(d0, Plain([move |-> Plain([kinematics |-> kinematics])]), FALSE)
        d2 == IF global = Undefined THEN d1 ELSE Set(d1, "global", global)
    IN  IF plugins = Undefined THEN d2 ELSE Set(d2, "plugins", plugins)

\* Deltas of one part
SimpleDeltas ==
    {Delta(k, Undefined, Undefined, Undefined) : k \in KinematicsNameDeltas \cup KinematicsDeltas}
    \cup {Delta(Undefined, g, Undefined, Undefined) : g \in GlobalDeltas}
    \cup {Delta(Undefined, Undefined, p, Undefined) : p \in PluginsDeltas}
    \cup {Delta(Undefined, Undefined, Undefined, r) : r \in OtherDeltas}

\* Deltas of several parts: a kinematics, both keyed maps and another field,
\* each of them there or left out
CompositeDeltas ==
    {Delta(k, m[1], m[2], r) :
        k \in {Undefined, Plain([name |-> Str("delta"), diagonal |-> Num(215)]),
               Plain([name |-> Str("bogus")])},
        m \in {<<Undefined, Undefined>>,
               <<Plain([a |-> Plain([x |-> Num(5)])]), Plain([p |-> Plain([status |-> Str("started")])])>>},
        r \in {Undefined, MismatchDelta, SparseDelta,
               Plain([state |-> Plain([status |-> Str("idle")])])}}
    \ {EmptyObject}

Deltas == SimpleDeltas \cup CompositeDeltas

\* Deltas of a status
StatusDeltas ==
    {Plain([state |-> Plain([status |-> Str(x)])]) : x \in {"idle", "processing", "simulating"}}

\* Size and position of the file of a job (Undefined: the delta has no position)
FileReadings ==
    {<<Num(4), Num(1)>>, <<Num(4), Num(6)>>, <<Num(0), Num(1)>>, <<Num(-1), Num(1)>>,
     <<Null, Num(1)>>, <<Num(4), Undefined>>}

\* The delta of a job: its status, its file with the filament it needs, the
\* position in the file and the raw position of the one extruder
JobDelta(status, size, position) ==
    LET file == Plain([size |-> size, filament |-> Arr(<<Num(10)>>)])
        job == IF position = Undefined THEN Plain([file |-> file])
               ELSE Plain([file |-> file, filePosition |-> position])
    IN  Set(Set(status, "job", job),
            "move", Plain([extruders |-> Arr(<<Plain([rawPosition |-> Num(5)])>>)]))

\* Deltas of the tools and of the number of the current one
ToolDeltas ==
    {Plain([tools |-> Arr(<<Plain([number |-> Num(0)]), Plain([number |-> Num(1)])>>),
            state |-> Plain([currentTool |-> Num(k)])]) : k \in {-1, 0, 1, 2}}
    \cup {Plain([tools |-> Arr(<<Null>>)])}

\* The deltas that make the trees the getters are evaluated on
ReadingDeltas ==
    StatusDeltas
    \cup {JobDelta(status, f[1], f[2]) : status \in StatusDeltas, f \in FileReadings}
    \cup {Plain([job |-> Plain([lastFileName |-> Str("a.g")])]),
          Plain([move |-> Plain([extruders |-> Arr(<<Plain([rawPosition |-> Num(0)])>>)])])}
    \cup ToolDeltas
    \cup {Plain([heat |-> Plain([heaters |-> Arr(<<Plain([max |-> Num(300)]), Plain(<<>>),
                                                     Plain([max |-> Num(250)])>>)])])}

\* The entries of a list of heaters: a heater with the default limit, heaters
\* with a limit of their own, and null for a heater that is absent
HeaterEntries == {Null, Heater(Undefined), Heater(Plain([max |-> Num(300)])),
                  Heater(Plain([max |-> Num(250)]))}

\* The lists of heaters of up to MaxHeaters entries
HeaterLists == UNION {[1..n -> HeaterEntries] : n \in 0..MaxHeaters}

\* Plugins handed to addPlugin and removePlugin
Plugins ==
    {Plain([id |-> Str("p"), version |-> Num(2)]),
     Plain([id |-> Str("q"), version |-> Num(1), status |-> Str("stopped")])}

---------------------------------------------------------------------------
(* The module: its state after construction and its mutations as actions   *)

\* A reference to the plugin object objects[n]
Ref(n) == [k |-> "ref", at |-> n]

\* The plugin objects the callers of addPlugin and removePlugin hold
PluginObjects ==
    <<Plain([id |-> Str("p"), version |-> Num(2)]),
      Plain([id |-> Str("q"), version |-> Num(1), status |-> Str("stopped")])>>

\* The objects there are once the file is loaded: DefaultMachineModel, and
\* DefaultMachineModelModule whose state it is
Loaded ==
    /\ trees = <<DefaultMachineModel>>
    /\ modules = <<[connector |-> Null, state |-> 1]>>
    /\ objects = PluginObjects
    /\ target = 1

\* The delta d names a kinematics other than the live one of the tree s
ChangesDiscriminant(s, d) ==
    /\ Has(Prop(Prop(d, "move"), "kinematics"), "name")
    /\ d.f.move.f.kinematics.f.name # s.f.move.f.kinematics.f.name

Init ==
    /\ state = ConnectedModel
    /\ payload = Undefined
    /\ op = "init"
    /\ arg = Undefined
    /\ before = ConnectedModel
    /\ outcome = "ok"
    /\ repeatOf = FALSE
    /\ calls = 0
    /\ returned = Undefined
    /\ Loaded

\* store.commit('update', d)
Update ==
    \E d \in Deltas :
        LET r == update(state, d)
        IN  /\ calls < MaxCalls
            /\ state' = r.state
            /\ payload' = r.payload
            /\ op' = "update"
            /\ arg' = d
            /\ before' = state
            /\ outcome' = r.outcome
            /\ repeatOf' = (op = "update" /\ arg = d /\ outcome = "ok" /\ ChangesDiscriminant(before, d))
            /\ calls' = calls + 1
            /\ returned' = Undefined
            /\ UNCHANGED store

\* store.commit('addPlugin', plugin)
AddPlugin ==
    \E plugin \in Plugins :
        /\ calls < MaxCalls
        /\ state' = addPlugin(state, plugin)
        /\ payload' = plugin
        /\ op' = "addPlugin"
        /\ arg' = plugin
        /\ before' = state
        /\ outcome' = "ok"
        /\ repeatOf' = FALSE
        /\ calls' = calls + 1
        /\ returned' = Undefined
        /\ UNCHANGED store

\* store.commit('removePlugin', plugin)
RemovePlugin ==
    \E plugin \in Plugins :
        /\ calls < MaxCalls
        /\ state' = removePlugin(state, plugin)
        /\ payload' = plugin
        /\ op' = "removePlugin"
        /\ arg' = plugin
        /\ before' = state
        /\ outcome' = "ok"
        /\ repeatOf' = FALSE
        /\ calls' = calls + 1
        /\ returned' = Undefined
        /\ UNCHANGED store

Next == Update \/ AddPlugin \/ RemovePlugin

Spec == Init /\ [][Next]_vars

\* store.commit('update', d) with a delta of the values the getters read
UpdateReadings ==
    \E d \in ReadingDeltas :
        LET r == update(state, d)
        IN  /\ calls < MaxDeltas
            /\ state' = r.state
            /\ payload' = r.payload
            /\ op' = "update"
            /\ arg' = d
            /\ before' = state
            /\ outcome' = r.outcome
            /\ repeatOf' = FALSE
            /\ calls' = calls + 1
            /\ returned' = Undefined
            /\ UNCHANGED store

\* store.getters.currentTool: a getter reads the tree and changes nothing
CurrentTool ==
    /\ returned' = [getter |-> "currentTool", value |-> currentTool(state)]
    /\ UNCHANGED <<state, payload, op, arg, before, outcome, repeatOf, calls, store>>

\* Mutant of FractionPrinted: the value is the one of the tree before the last
\* mutation, as a cache that the mutation did not invalidate would give it
FractionPrinted_stale ==
    /\ returned' = [getter |-> "fractionPrinted", value |-> fractionPrinted(before)]
    /\ UNCHANGED <<state, payload, op, arg, before, outcome, repeatOf, calls, store>>

\* store.getters.fractionPrinted
FractionPrinted ==
    /\ returned' = [getter |-> "fractionPrinted", value |-> fractionPrinted(state)]
    /\ UNCHANGED <<state, payload, op, arg, before, outcome, repeatOf, calls, store>>

\* store.getters.jobProgress
JobProgress ==
    /\ returned' = [getter |-> "jobProgress", value |-> jobProgress(state)]
    /\ UNCHANGED <<state, payload, op, arg, before, outcome, repeatOf, calls, store>>

\* store.getters.maxHeaterTemperature
MaxHeaterTemperature ==
    /\ returned' = [getter |-> "maxHeaterTemperature", value |-> maxHeaterTemperature(state)]
    /\ UNCHANGED <<state, payload, op, arg, before, outcome, repeatOf, calls, store>>

GettersNext ==
    UpdateReadings \/ CurrentTool \/ FractionPrinted \/ MaxHeaterTemperature \/ JobProgress

\* The module under deltas of the values its getters read, and its getters
GettersSpec == Init /\ [][GettersNext]_vars

\* A module whose list of heaters is any of HeaterLists, absent heaters included
HeatersInit ==
    /\ state \in {[ConnectedModel EXCEPT !.f.heat.f.heaters = Arr(h)] : h \in HeaterLists}
    /\ payload = Undefined
    /\ op = "init"
    /\ arg = Undefined
    /\ before = state
    /\ outcome = "ok"
    /\ repeatOf = FALSE
    /\ calls = 0
    /\ returned = Undefined
    /\ Loaded

\* maxHeaterTemperature over the lists of heaters
HeatersSpec == HeatersInit /\ [][MaxHeaterTemperature]_vars

---------------------------------------------------------------------------
(* The modules the factory gives out, and the mutations committed to any   *)
(* of them.  Objects have an identity here: a module's state is one of     *)
(* trees, and a plugins map holds references into objects, so that one     *)
(* object held by two trees is one object.                                 *)

\* What the factory is called with: no connector, or the connector of a machine
Connectors ==
    {Undefined, Null, Plain([hostname |-> Str("printer")]), Plain([hostname |-> Str("mill")])}

IsRef(v) == v.k = "ref"

\* The value of the tree t: each reference replaced by the object it refers to
Value(t, heap) ==
    [t EXCEPT !.f.plugins.f = [key \in DOMAIN t.f.plugins.f |-> heap[t.f.plugins.f[key].at]]]

\* The value of the delta d, likewise
DeltaValue(d, heap) ==
    IF IsObj(Prop(d, "plugins"))
    THEN [d EXCEPT !.f.plugins.f = [key \in DOMAIN d.f.plugins.f |->
            IF IsRef(d.f.plugins.f[key]) THEN heap[d.f.plugins.f[key].at]
            ELSE d.f.plugins.f[key]]]
    ELSE d

\* The elements of the set S in a sequence
RECURSIVE Enumerated(_)
Enumerated(S) ==
    IF S = {} THEN <<>>
    ELSE LET x == CHOOSE y \in S : TRUE IN <<x>> \o Enumerated(S \ {x})

Position(seq, x) == CHOOSE i \in DOMAIN seq : seq[i] = x

\* The keys of the plugins map held that the delta d merges a value into:
\* patch(state.plugins[key], payload.plugins[key]) changes the object held
MergedKeys(held, d, after) ==
    {key \in DOMAIN after \cap DOMAIN held : IsObj(Prop(d, "plugins")) /\ Has(d.f.plugins, key)}

\* The keys the delta inserts with an object written in the delta itself, in
\* the order the objects are numbered
InsertedLiterals(held, d, after) ==
    Enumerated({key \in DOMAIN after \ DOMAIN held : ~IsRef(d.f.plugins.f[key])})

\* The objects after update has given the plugins map held the values after
ObjectsAfter(heap, held, d, after) ==
    LET merged == MergedKeys(held, d, after)
        literals == InsertedLiterals(held, d, after)
    IN  [n \in DOMAIN heap |->
            IF \E key \in merged : held[key].at = n
            THEN after[CHOOSE key \in merged : held[key].at = n]
            ELSE heap[n]]
        \o [i \in DOMAIN literals |-> after[literals[i]]]

\* The plugins map after update: a key it had keeps the object it held, a key
\* inserted holds the very object the delta gave
HeldAfter(heap, held, d, after) ==
    LET literals == InsertedLiterals(held, d, after)
    IN  [key \in DOMAIN after |->
            IF key \in DOMAIN held THEN held[key]
            ELSE IF IsRef(d.f.plugins.f[key]) THEN d.f.plugins.f[key]
            ELSE Ref(Len(heap) + Position(literals, key))]

\* Deltas handed to update for any of the modules; the value for a plugin is
\* written in the delta or is an object the caller holds
ModuleDeltas ==
    {Plain([plugins |-> Plain([p |-> Plain([status |-> Str("started")])])]),
     Plain([plugins |-> Plain([p |-> Ref(1)])]),
     Plain([plugins |-> Plain([q |-> Null])]),
     Plain([plugins |-> Null]),
     Plain([state |-> Plain([status |-> Str("idle")])])}

ModulesInit ==
    /\ Loaded
    /\ state = DefaultMachineModel
    /\ payload = Undefined
    /\ op = "init"
    /\ arg = Undefined
    /\ before = DefaultMachineModel
    /\ outcome = "ok"
    /\ repeatOf = FALSE
    /\ calls = 0
    /\ returned = Undefined

\* Mutant of Factory: a call without a connector makes a module of its own
\* around the default machine model
Factory_newDefaultModule ==
    \E connector \in Connectors :
        /\ Len(modules) < MaxModules
        /\ IF Truthy(connector)
           THEN /\ trees' = Append(trees, MachineModelModule(connector))
                /\ modules' = Append(modules, [connector |-> connector, state |-> Len(trees) + 1])
           ELSE /\ trees' = trees
                /\ modules' = Append(modules, [connector |-> connector, state |-> 1])
        /\ target' = Len(modules) + 1
        /\ returned' = [call |-> "factory", value |-> target']
        /\ state' = Value(trees'[modules'[target'].state], objects)
        /\ before' = state'
        /\ payload' = connector
        /\ op' = "factory"
        /\ arg' = connector
        /\ outcome' = "ok"
        /\ repeatOf' = FALSE
        /\ UNCHANGED <<calls, objects>>

\* The module factory: connector ? new MachineModelModule(connector) : DefaultMachineModelModule
Factory ==
    \E connector \in Connectors :
        /\ IF Truthy(connector)
           THEN /\ Len(modules) < MaxModules
                /\ trees' = Append(trees, MachineModelModule(connector))
                /\ modules' = Append(modules, [connector |-> connector, state |-> Len(trees) + 1])
                /\ target' = Len(modules) + 1
           ELSE /\ UNCHANGED <<trees, modules>>
                /\ target' = 1
        /\ returned' = [call |-> "factory", value |-> target']
        /\ state' = Value(trees'[modules'[target'].state], objects)
        /\ before' = state'
        /\ payload' = connector
        /\ op' = "factory"
        /\ arg' = connector
        /\ outcome' = "ok"
        /\ repeatOf' = FALSE
        /\ UNCHANGED <<calls, objects>>

\* store.commit('update', d) on the module m
UpdateModule ==
    \E m \in DOMAIN modules, d \in ModuleDeltas :
        LET t == modules[m].state
            live == Value(trees[t], objects)
            r == update(live, DeltaValue(d, objects))
            held == trees[t].f.plugins.f
            after == r.state.f.plugins.f
        IN  /\ calls < MaxCalls
            /\ objects' = ObjectsAfter(objects, held, d, after)
            /\ trees' = [trees EXCEPT ![t] =
                            [r.state EXCEPT !.f.plugins.f = HeldAfter(objects, held, d, after)]]
            /\ target' = m
            /\ state' = r.state
            /\ payload' = r.payload
            /\ op' = "update"
            /\ arg' = d
            /\ before' = live
            /\ outcome' = r.outcome
            /\ repeatOf' = FALSE
            /\ calls' = calls + 1
            /\ returned' = Undefined
            /\ UNCHANGED modules

\* store.commit('addPlugin', plugin) on the module m, with a plugin object
\* the caller holds
AddPluginTo ==
    \E m \in DOMAIN modules, n \in DOMAIN PluginObjects :
        LET t == modules[m].state
            live == Value(trees[t], objects)
        IN  /\ calls < MaxCalls
            /\ trees' = [trees EXCEPT ![t].f.plugins = Set(@, objects[n].f.id.s, Ref(n))]
            /\ target' = m
            /\ state' = addPlugin(live, objects[n])
            /\ payload' = objects[n]
            /\ op' = "addPlugin"
            /\ arg' = objects[n]
            /\ before' = live
            /\ outcome' = "ok"
            /\ repeatOf' = FALSE
            /\ calls' = calls + 1
            /\ returned' = Undefined
            /\ UNCHANGED <<modules, objects>>

\* store.commit('removePlugin', plugin) on the module m
RemovePluginFrom ==
    \E m \in DOMAIN modules, n \in DOMAIN PluginObjects :
        LET t == modules[m].state
            live == Value(trees[t], objects)
        IN  /\ calls < MaxCalls
            /\ trees' = [trees EXCEPT ![t].f.plugins = Delete(@, objects[n].f.id.s)]
            /\ target' = m
            /\ state' = removePlugin(live, objects[n])
            /\ payload' = objects[n]
            /\ op' = "removePlugin"
            /\ arg' = objects[n]
            /\ before' = live
            /\ outcome' = "ok"
            /\ repeatOf' = FALSE
            /\ calls' = calls + 1
            /\ returned' = Undefined
            /\ UNCHANGED <<modules, objects>>

ModulesNext == Factory \/ UpdateModule \/ AddPluginTo \/ RemovePluginFrom

\* The modules of the store, their trees and the plugin objects they hold
ModulesSpec == ModulesInit /\ [][ModulesNext]_vars

---------------------------------------------------------------------------
(* What the claims speak of *)

\* state.move.kinematics of a tree
kinematics(s) == s.f.move.f.kinematics

\* payload.move.kinematics of a delta (Undefined when it has none)
deltaKinematics(d) == Prop(Prop(d, "move"), "kinematics")

\* The last call was update and handed in a sub-map for the keyed map m
UpdatedMap(m) == op = "update" /\ IsObj(Prop(arg, m))

\* The entity lists: positions in them are entities, which a null entry removes
EntityLists == {<<"heat", "heaters">>, <<"tools">>}

\* The index the entity at index i of an entity list has after the delta list
\* d removed the entities it gives null for
IndexAfter(d, i) == i - Cardinality({j \in DOMAIN d : j < i /\ d[j] = Null})

\* The delta value dv replaces the live value v as a whole: it is there and
\* is not merged into v
Replaces(v, dv) == dv # Undefined /\ ~Mergeable(v, dv)

\* The frame of a merge: every field of old whose path does not occur in the
\* delta d has the same value in new.  A path occurs in d when d has a value
\* at it; below a value of d that replaces the live one every path counts as
\* named.  With follow set, the entities of an entity list are followed to
\* the index they have after the delta's null entries took entities out.
RECURSIVE Frame(_, _, _, _, _)
Frame(old, new, d, path, follow) ==
    IF d = Undefined THEN new = old
    ELSE IF IsObj(old) /\ IsObj(d)
    THEN /\ IsObj(new)
         /\ \A key \in DOMAIN old.f :
                \/ Replaces(old.f[key], Prop(d, key))
                \/ /\ key \in DOMAIN new.f
                   /\ Frame(old.f[key], new.f[key], Prop(d, key), Append(path, key), follow)
    ELSE IF IsArr(old) /\ IsArr(d)
    THEN /\ IsArr(new)
         /\ \A i \in DOMAIN old.e :
                LET di == IF i \in DOMAIN d.e THEN d.e[i] ELSE Undefined
                    ni == IF follow /\ path \in EntityLists THEN IndexAfter(d.e, i) ELSE i
                IN  \/ Replaces(old.e[i], di)
                    \/ /\ ni \in DOMAIN new.e
                       /\ Frame(old.e[i], new.e[ni], di, Append(path, "#"), follow)
    ELSE TRUE

---------------------------------------------------------------------------
(* C1..C10 *)

\* C1: update is all-or-nothing: when the call fails with a SchemaMismatch of
\* the generic merge, the tree after the call is equal to the tree before it,
\* in every part (move.kinematics, global and plugins included).
C1_AllOrNothing ==
    (op = "update" /\ outcome = "SchemaMismatch") => state = before

AsReplaced(s, d) ==
    LET d1 == IF ChangesDiscriminant(s, d)
              THEN [d EXCEPT !.f.move.f.kinematics = Null]
              ELSE d
    IN  IF IsObj(Prop(d1, "global"))
        THEN [d1 EXCEPT !.f.global.f = [key \in DOMAIN @ |-> Null]]
        ELSE d1

C3_GlobalFalsyKeyAbsent ==
    UpdatedMap("global") =>
        \A key \in DOMAIN arg.f.global.f :
            ~Truthy(arg.f.global.f[key]) => ~Has(state.f.global, key)

\* C4: after update with a plugins sub-map that gives a key a null/falsy
\* value, that key is absent from state.plugins, whether it was there before
\* or not, and the call does not fail for it.
C4_PluginsFalsyKeyAbsent ==
    UpdatedMap("plugins") =>
        /\ DOMAIN arg.f = {"plugins"} => outcome = "ok"
        /\ \A key \in DOMAIN arg.f.plugins.f :
               ~Truthy(arg.f.plugins.f[key]) => ~Has(state.f.plugins, key)

\* C4 witness: one delta gave null for a plugin that was not there and false
\* for one that was.
C4_Witness ==
    /\ UpdatedMap("plugins") /\ outcome = "ok"
    /\ Prop(arg.f.plugins, "p") = Null /\ Prop(arg.f.plugins, "q") = Bool(FALSE)
    /\ ~Has(before.f.plugins, "p") /\ Has(before.f.plugins, "q")
    /\ state.f.plugins = EmptyObject

\* C5: when a delta gives a non-falsy value for a key state.plugins already
\* has, the value is merged into the entry field by field: the entry keeps
\* every field the delta value does not mention, with its value, and takes the
\* delta's value for the fields it mentions; the entry is not replaced.
C5_PluginEntryMerged ==
    UpdatedMap("plugins") =>
        \A key \in DOMAIN arg.f.plugins.f :
            LET value == arg.f.plugins.f[key]
                entry == Prop(before.f.plugins, key)
                merged == Prop(state.f.plugins, key)
            IN  (Truthy(value) /\ IsObj(value) /\ IsObj(entry)) =>
                    /\ IsObj(merged)
                    /\ merged.c = entry.c
                    /\ DOMAIN merged.f = DOMAIN entry.f \cup DOMAIN value.f
                    /\ \A field \in DOMAIN entry.f \ DOMAIN value.f :
                           merged.f[field] = entry.f[field]
                    /\ \A field \in DOMAIN value.f :
                           ~Mergeable(Prop(entry, field), value.f[field])
                               => merged.f[field] = value.f[field]

\* C5 witness: a delta with a status alone was applied to a plugin with an id,
\* a version and another status.
C5_Witness ==
    /\ UpdatedMap("plugins") /\ outcome = "ok"
    /\ Prop(arg.f.plugins, "p") = Plain([status |-> Str("started")])
    /\ Prop(before.f.plugins, "p")
           = Plain([id |-> Str("p"), version |-> Num(1), status |-> Str("stopped")])
    /\ Prop(state.f.plugins, "p")
           = Plain([id |-> Str("p"), version |-> Num(1), status |-> Str("started")])

\* C6: when a delta gives a value for a key state.global already has with an
\* object value, the value is merged into the entry field by field: the fields
\* of the entry that the delta value does not name are kept.
C6_GlobalEntryMerged ==
    UpdatedMap("global") =>
        \A key \in DOMAIN arg.f.global.f :
            LET value == arg.f.global.f[key]
                entry == Prop(before.f.global, key)
                merged == Prop(state.f.global, key)
            IN  (IsObj(value) /\ IsObj(entry)) =>
                    /\ IsObj(merged)
                    /\ \A field \in DOMAIN entry.f \ DOMAIN value.f :
                           Has(merged, field) /\ merged.f[field] = entry.f[field]

\* The keys of the keyed map m that the sub-map of the last delta does not have
KeysNotInDelta(m) == DOMAIN before.f[m].f \ DOMAIN arg.f[m].f

\* C7: for both keyed maps, every key that is not in the delta's sub-map is
\* still in the map after update, with its value unchanged.
C7_KeysNotInDeltaKept ==
    \A m \in {"global", "plugins"} :
        UpdatedMap(m) =>
            \A key \in KeysNotInDelta(m) :
                Has(state.f[m], key) /\ state.f[m].f[key] = before.f[m].f[key]

\* C7 witness: one delta carried a sub-map for both maps, and each map held a
\* key the sub-map did not have.
C7_Witness ==
    /\ UpdatedMap("global") /\ UpdatedMap("plugins") /\ outcome = "ok"
    /\ KeysNotInDelta("global") # {} /\ KeysNotInDelta("plugins") # {}
    /\ state.f.global # before.f.global /\ state.f.plugins # before.f.plugins

\* C8: a delta whose plugins field is null leaves state.plugins an empty map,
\* whatever it held; an empty plugins map takes keys again, from addPlugin
\* and from the sub-map of a later delta.
C8_PluginsNullResets ==
    /\ (op = "update" /\ Prop(arg, "plugins") = Null) => state.f.plugins = EmptyObject
    /\ (op = "addPlugin" /\ before.f.plugins = EmptyObject)
           => state.f.plugins = Plain((arg.f.id.s) :> arg)
    /\ (UpdatedMap("plugins") /\ before.f.plugins = EmptyObject)
           => \A key \in DOMAIN arg.f.plugins.f :
                  Truthy(arg.f.plugins.f[key])
                      => Prop(state.f.plugins, key) = arg.f.plugins.f[key]

\* C8 witness: the delta with plugins: null was applied to a map with a plugin.
C8_Witness ==
    /\ op = "update" /\ Prop(arg, "plugins") = Null
    /\ before.f.plugins # EmptyObject
    /\ state.f.plugins = EmptyObject

\* The variant the table of update gives a kinematics name, and its defaults
VariantOf(name) ==
    CASE name \in {"cartesian", "coreXY", "coreXYU", "coreXYUV", "coreXZ", "markForged"}
            -> CoreKinematics
      [] name \in {"delta", "rotaryDelta"} -> DeltaKinematics
      [] name = "hangprinter" -> HangprinterKinematics
      [] name \in {"fiveBarScara", "scara"} -> ScaraKinematics

\* C9: when the delta's move.kinematics.name differs from the live one,
\* update replaces the live kinematics with a fresh instance of the variant the
\* table gives the name, before the delta is merged: after the call the
\* kinematics is of that variant's class and has exactly its fields, each with
\* the delta's value if the delta has the field and the variant's default if
\* not (when the call fails, with the defaults throughout).
C9_KinematicsReplaced ==
    (op = "update" /\ ChangesDiscriminant(before, arg)
        /\ arg.f.move.f.kinematics.f.name.k = "str"
        /\ arg.f.move.f.kinematics.f.name.s \in KinematicsName)
    => LET given == arg.f.move.f.kinematics
           fresh == VariantOf(given.f.name.s)
           live == kinematics(state)
       IN  /\ live.c = fresh.c
           /\ DOMAIN live.f = DOMAIN fresh.f
           /\ \A field \in DOMAIN live.f :
                  live.f[field] = IF outcome = "ok" /\ Has(given, field)
                                  THEN given.f[field]
                                  ELSE fresh.f[field]

\* C9 witness: the live kinematics was a Core one with a forwardMatrix of its
\* own, the delta was {name: 'delta', diagonal: 215}, and the result is a Delta
\* instance with diagonal 215 and no forwardMatrix.
C9_Witness ==
    /\ op = "update" /\ outcome = "ok"
    /\ kinematics(before).c = "CoreKinematics"
    /\ kinematics(before).f.forwardMatrix = SwappedMatrix
    /\ deltaKinematics(arg) = Plain([name |-> Str("delta"), diagonal |-> Num(215)])
    /\ kinematics(state).c = "DeltaKinematics"
    /\ kinematics(state).f.diagonal = Num(215)
    /\ ~Has(kinematics(state), "forwardMatrix")

\* The delta removes an entity from an entity list
RemovesEntity(d) ==
    /\ IsArr(Prop(Prop(d, "heat"), "heaters"))
    /\ \E i \in DOMAIN d.f.heat.f.heaters.e : d.f.heat.f.heaters.e[i] = Null

\* The fields of the live kinematics that the delta names have the delta's value
KinematicsAsGiven(s, d) ==
    \A field \in DOMAIN deltaKinematics(d).f \cap DOMAIN kinematics(s).f :
        kinematics(s).f[field] = deltaKinematics(d).f[field]

---------------------------------------------------------------------------
(* C11..C20 *)

\* The delta d names a kinematics that the table of update does not have
UnknownDiscriminant(d) ==
    /\ Has(deltaKinematics(d), "name")
    /\ deltaKinematics(d).f.name \notin {Str(n) : n \in KinematicsName}

\* Every field of d agrees in structural kind with the schema
OfSchemaKind(d) == ~SchemaMismatch(MachineModelDefaults, d)

\* The tree s holds what the delta d gives: every scalar of d is in s at its
\* path (a null of d, a removal, and the lists of d are not looked at)
RECURSIVE Holds(_, _)
Holds(s, d) ==
    IF IsObj(d)
    THEN IsObj(s) /\ \A key \in DOMAIN d.f : Has(s, key) /\ Holds(s.f[key], d.f[key])
    ELSE IF IsArr(d) \/ d = Null THEN TRUE
    ELSE s = d

\* C11: a delta whose move.kinematics.name is not in the table does not make
\* update fail: a delta that agrees with the schema succeeds, the live
\* kinematics becomes an instance of the base class Kinematics with the base
\* fields alone (the delta's values in them), and the global variables, the
\* plugins and the other fields of the same delta are in the tree afterwards.
C11_UnknownDiscriminantFallsBack ==
    (op = "update" /\ UnknownDiscriminant(arg) /\ ChangesDiscriminant(before, arg))
    => /\ kinematics(state).c = "Kinematics"
       /\ DOMAIN kinematics(state).f = DOMAIN KinematicsBase
       /\ OfSchemaKind(arg) =>
              /\ outcome = "ok"
              /\ kinematics(state).f.name = deltaKinematics(arg).f.name
              /\ Holds(state, arg)

\* C11 witness: a delta named the kinematics 'bogus' and carried a global
\* variable, a plugin and a status; the live kinematics was a Delta one, and
\* afterwards it is of the base class and all of the rest is in the tree.
C11_Witness ==
    /\ op = "update" /\ outcome = "ok"
    /\ kinematics(before).c = "DeltaKinematics"
    /\ deltaKinematics(arg) = Plain([name |-> Str("bogus")])
    /\ kinematics(state) = Obj("Kinematics", [KinematicsBase EXCEPT !.name = Str("bogus")])
    /\ Has(arg, "global") /\ Has(arg, "plugins") /\ Has(arg, "state")
    /\ state.f.global.f.a = Plain([x |-> Num(5)])
    /\ Has(state.f.plugins, "p")
    /\ state.f.state.f.status = Str("idle") /\ before.f.state.f.status = Null

\* The class the table of update gives a name: the variant's, or the base
\* class for a name the table does not have
ShapeOf(name) ==
    IF name \in {Str(n) : n \in KinematicsName} THEN VariantOf(name.s).c ELSE "Kinematics"

RECURSIVE At(_, _)
At(v, path) == IF path = <<>> THEN v ELSE At(Prop(v, Head(path)), Tail(path))

\* The indices of the merged list whose entity the delta list d does not remove
Survivors(old, d) == {i \in 1..Max(Len(old), Len(d)) : ~(i \in DOMAIN d /\ d[i] = Null)}

\* The entity new is the entity old with the delta entry di merged into it
EntityMerged(old, new, di) ==
    IF di = Undefined THEN new = old
    ELSE /\ IsObj(new) /\ new.c = old.c
         /\ \A field \in DOMAIN old.f :
                new.f[field] = IF Has(di, field) THEN di.f[field] ELSE old.f[field]

PostDelta(s, d) ==
    LET s3 == updatePlugins(updateGlobal(fixKinematics(s, d), d), d)
    IN  fixMachineItems(patch(s3, consumed(d), TRUE), consumed(d))

\* C14: applying a delta is atomic towards readers and other writers.  A
\* mutation is one synchronous call, so the states of the module are the only
\* points at which a getter or another mutation runs; in every one of them
\* that follows an update, the tree a reader finds is either the pre-delta
\* tree or the fully post-delta tree, never one in between.
C14_ReadsPreOrPostDelta ==
    op = "update" => (state = before \/ state = PostDelta(before, arg))

\* The trees old and new differ in nothing but the entry of the plugins map
\* under the given id
SameButPlugin(old, new, id) ==
    /\ DOMAIN new.f = DOMAIN old.f
    /\ \A field \in DOMAIN old.f \ {"plugins"} : new.f[field] = old.f[field]
    /\ IsObj(new.f.plugins) /\ new.f.plugins.c = old.f.plugins.c
    /\ DOMAIN new.f.plugins.f \ {id} = DOMAIN old.f.plugins.f \ {id}
    /\ \A key \in DOMAIN old.f.plugins.f \ {id} : new.f.plugins.f[key] = old.f.plugins.f[key]

\* C15: addPlugin puts the given plugin under its id, as a new entry or in
\* place of the whole entry that was there: afterwards state.plugins[plugin.id]
\* is the given plugin, and every other key of plugins and every field of the
\* tree outside plugins is as it was.
C15_AddPluginInsertsOrReplaces ==
    op = "addPlugin" =>
        /\ outcome = "ok"
        /\ Prop(state.f.plugins, arg.f.id.s) = arg
        /\ SameButPlugin(before, state, arg.f.id.s)

\* C15 witness: the map held a plugin p with a status and a plugin q; addPlugin
\* was called with a p without a status, and the entry is that p.
C15_Witness ==
    /\ op = "addPlugin" /\ arg.f.id = Str("p")
    /\ Has(before.f.plugins, "p") /\ Has(before.f.plugins.f.p, "status")
    /\ Has(before.f.plugins, "q")
    /\ ~Has(state.f.plugins.f.p, "status")
    /\ state.f.plugins.f.q = before.f.plugins.f.q

\* C16: removePlugin deletes exactly the entry under plugin.id: afterwards the
\* id is not in state.plugins and all else is as it was; for an id that is not
\* there (a second call for the same id included) the tree is unchanged, and
\* the call raises no error.
C16_RemovePluginDeletesEntry ==
    op = "removePlugin" =>
        /\ outcome = "ok"
        /\ ~Has(state.f.plugins, arg.f.id.s)
        /\ SameButPlugin(before, state, arg.f.id.s)
        /\ ~Has(before.f.plugins, arg.f.id.s) => state = before

\* C16 witness: the map held the plugins p and q, removePlugin was called for
\* p, and the map holds q alone.
C16_Witness ==
    /\ op = "removePlugin" /\ arg.f.id = Str("p")
    /\ DOMAIN before.f.plugins.f = {"p", "q"}
    /\ DOMAIN state.f.plugins.f = {"q"}
    /\ state.f.plugins.f.q = before.f.plugins.f.q

\* The getter evaluated last is the given one
Returned(getter) == returned # Undefined /\ returned.getter = getter

\* The status of the tree is one of a job in progress
ActiveStatus(s) == isPrinting(s.f.state.f.status)

\* Sum of job.file.filament: the filament the job needs in all
ExpectedFilament(s) == Sum(s.f.job.f.file.f.filament.e)

\* Sum of the rawPosition of the extruders: the filament extruded so far
ExtrudedFilament(s) ==
    Sum([i \in DOMAIN s.f.move.f.extruders.e |-> s.f.move.f.extruders.e[i].f.rawPosition])

\* The case of the filament ratio: the machine is simulating, the filament the
\* job needs is known and positive and the filament extruded is positive
FilamentCase(s) ==
    /\ s.f.state.f.status = Str("simulating")
    /\ Len(s.f.job.f.file.f.filament.e) > 0 /\ ExpectedFilament(s) > 0
    /\ ExtrudedFilament(s) > 0

\* The number v is the quotient of the integers x and y (y is not 0)
IsQuotient(v, x, y) == v.k = "num" /\ v.n * y = x * Denominator(v)

\* C17: while the status is one of a job in progress, the machine is
\* simulating, the filament the job needs is known and positive and the
\* filament extruded is positive, jobProgress returns the filament ratio
\* min(extruded / needed, 1), not the completion fraction.
C17_FilamentRatioWhenSimulating ==
    (Returned("jobProgress") /\ ActiveStatus(state) /\ FilamentCase(state))
    => /\ returned.value.k = "num"
       /\ IF ExtrudedFilament(state) >= ExpectedFilament(state)
          THEN returned.value = Num(1)
          ELSE IsQuotient(returned.value, ExtrudedFilament(state), ExpectedFilament(state))

\* C18: while the status is one of a job in progress and the case of the
\* filament ratio is not given, jobProgress is the completion fraction
\* (fractionPrinted); while the status is no such one, jobProgress is 1 if
\* job.lastFileName is set and 0 if not.
C18_FractionOrLastFile ==
    Returned("jobProgress") =>
        /\ (ActiveStatus(state) /\ ~FilamentCase(state))
               => returned.value = fractionPrinted(state)
        /\ ~ActiveStatus(state)
               => returned.value = IF state.f.job.f.lastFileName \notin {Null, Str("")}
                                   THEN Num(1) ELSE Num(0)

\* C18 witness: a job is processing and is not simulated, 5 of 10 of its
\* filament is extruded and 1 of 4 of its file is read, and jobProgress is 1/4.
C18_Witness ==
    /\ Returned("jobProgress")
    /\ state.f.state.f.status = Str("processing")
    /\ ExtrudedFilament(state) = 5 /\ ExpectedFilament(state) = 10
    /\ state.f.job.f.filePosition = Num(1) /\ state.f.job.f.file.f.size = Num(4)
    /\ IsQuotient(returned.value, 1, 4)

\* C19: currentTool returns the tool at index state.currentTool of the tools
\* list when the index is within the list, and the one 'none' value, null,
\* when the index is negative and when it is at or beyond the length of the
\* list, in every state reachable by updates (ones that shorten the list
\* included).
C19_CurrentToolOrNone ==
    Returned("currentTool") =>
        LET index == state.f.state.f.currentTool.n
            tools == state.f.tools.e
        IN  returned.value = IF index >= 0 /\ index < Len(tools) THEN tools[index + 1] ELSE Null

\* C20: fractionPrinted returns job.filePosition / job.file.size when the size
\* is positive and 0 when it is not (a size of 0, a negative one, null),
\* whatever filePosition is; it never divides by zero.
C20_FractionPrinted ==
    Returned("fractionPrinted") =>
        LET size == state.f.job.f.file.f.size
            position == state.f.job.f.filePosition
        IN  /\ returned.value # NotFinite
            /\ IF size.k = "num" /\ size.n > 0
               THEN IsQuotient(returned.value, ToNumber(position), size.n)
               ELSE returned.value = Num(0)

\* C20 witness: the size of the file is 0 and the position in it is 1, and
\* fractionPrinted is 0.
C20_Witness ==
    /\ Returned("fractionPrinted")
    /\ state.f.job.f.file.f.size = Num(0) /\ state.f.job.f.filePosition = Num(1)
    /\ returned.value = Num(0)

---------------------------------------------------------------------------
(* C21..C30 *)

\* The limits of the heaters of a list that are not absent
HeaterLimits(heaters) == {heaters[i].f.max.n : i \in {j \in DOMAIN heaters : heaters[j] # Null}}

\* C21: maxHeaterTemperature returns the largest max over the entries of
\* heat.heaters that are not null, wherever the null entries sit, and
\* undefined when the list is empty or holds null entries alone.
C21_MaxHeaterTemperature ==
    Returned("maxHeaterTemperature") =>
        LET limits == HeaterLimits(state.f.heat.f.heaters.e)
        IN  IF limits = {} THEN returned.value = Undefined
            ELSE /\ returned.value.k = "num"
                 /\ returned.value.n \in limits
                 /\ \A limit \in limits : limit <= returned.value.n

\* C21 witness: the list is [null, a heater of 300, a heater of 250] and the
\* getter returned 300.
C21_Witness ==
    /\ Returned("maxHeaterTemperature")
    /\ Len(state.f.heat.f.heaters.e) = 3
    /\ state.f.heat.f.heaters.e[1] = Null
    /\ state.f.heat.f.heaters.e[2] = Heater(Plain([max |-> Num(300)]))
    /\ state.f.heat.f.heaters.e[3] = Heater(Plain([max |-> Num(250)]))
    /\ returned.value = Num(300)

\* The value of a getter on a tree
Projection(getter, s) ==
    CASE getter = "currentTool" -> currentTool(s)
      [] getter = "fractionPrinted" -> fractionPrinted(s)
      [] getter = "maxHeaterTemperature" -> maxHeaterTemperature(s)
      [] getter = "jobProgress" -> jobProgress(s)

SchemaObjects ==
    {<<>>, <<"job">>, <<"job", "file">>, <<"move">>, <<"heat">>, <<"state">>, <<"sensors">>,
     <<"network">>}

\* The tree s has every field of the schema: each object of SchemaObjects is
\* an object in s and has exactly the fields the class MachineModel gives it
FullyPopulated(s) ==
    \A path \in SchemaObjects :
        /\ IsObj(At(s, path))
        /\ DOMAIN At(s, path).f = DOMAIN At(MachineModelDefaults, path).f

FreshFor(name) ==
    IF name \in {Str(n) : n \in KinematicsName} THEN VariantOf(name.s) ELSE Kinematics

\* The kinematics live is the instance base with the fields of the delta
\* value given merged into it (if the call succeeded) and all else as in base
MergedInto(base, live, given, succeeded) ==
    /\ live.c = base.c
    /\ DOMAIN live.f = DOMAIN base.f
    /\ \A field \in DOMAIN live.f :
           live.f[field] = IF succeeded /\ Has(given, field) THEN given.f[field]
                           ELSE base.f[field]

\* C26: update replaces the live kinematics if and only if the delta carries
\* move.kinematics with a name that differs from the live one.  With no name
\* or the same name the live instance stays, with every field the delta does
\* not mention; with any other name, one of the same variant included, the
\* kinematics is a fresh instance at the defaults with the delta merged in.
C26_ReplacedIffNameDiffers ==
    op = "update" =>
        MergedInto(IF ChangesDiscriminant(before, arg)
                   THEN FreshFor(deltaKinematics(arg).f.name)
                   ELSE kinematics(before),
                   kinematics(state), deltaKinematics(arg), outcome = "ok")

\* C26 witness: the live kinematics was coreXY with a forwardMatrix of its
\* own, the delta named coreXZ, and the result is a Core instance with the
\* default forwardMatrix.
C26_Witness ==
    /\ op = "update" /\ outcome = "ok"
    /\ kinematics(before).f.name = Str("coreXY")
    /\ kinematics(before).f.forwardMatrix = SwappedMatrix
    /\ deltaKinematics(arg) = Plain([name |-> Str("coreXZ")])
    /\ kinematics(state) = [CoreKinematics EXCEPT !.f.name = Str("coreXZ")]

\* C27: for both keyed maps, when a delta gives a non-falsy value for a key
\* the map does not hold, the map holds the key after update with a value
\* equal to the delta value: no field is added, defaulted or dropped.
C27_NewKeyInsertedVerbatim ==
    \A m \in {"global", "plugins"} :
        UpdatedMap(m) =>
            \A key \in DOMAIN arg.f[m].f \ DOMAIN before.f[m].f :
                Truthy(arg.f[m].f[key]) => Prop(state.f[m], key) = arg.f[m].f[key]

\* C27 witness: one delta gave a partial object for a global variable and for
\* a plugin, neither map held the key, and both hold the partial object.
C27_Witness ==
    /\ UpdatedMap("global") /\ UpdatedMap("plugins")
    /\ ~Has(before.f.global, "a") /\ ~Has(before.f.plugins, "p")
    /\ state.f.global.f.a = Plain([x |-> Num(5)])
    /\ state.f.plugins.f.p = Plain([status |-> Str("started")])

\* C28: in every state reachable by update, addPlugin and removePlugin,
\* state.plugins is a map (never null or undefined) and holds no key with a
\* null/falsy value.
C28_PluginsMapOfTruthyValues ==
    /\ IsObj(Prop(state, "plugins"))
    /\ \A key \in DOMAIN state.f.plugins.f : Truthy(state.f.plugins.f[key])

\* C28 witness: the map held the plugins p and q, a delta gave null for p and
\* a value for q, and the map holds q alone, with a value.
C28_Witness ==
    /\ UpdatedMap("plugins")
    /\ Prop(arg.f.plugins, "p") = Null /\ IsObj(Prop(arg.f.plugins, "q"))
    /\ DOMAIN before.f.plugins.f = {"p", "q"}
    /\ DOMAIN state.f.plugins.f = {"q"} /\ IsObj(state.f.plugins.f.q)

\* C29: update consumes the keyed-map parts of the delta object: when it
\* returns (or throws in the generic merge), the object has no plugins
\* property if it had one of any value (null included) and no global property
\* if its global value was truthy, and is otherwise as it was handed in; so
\* the generic merge and fixMachineItems are not handed the sub-maps.
C29_KeyedMapsConsumed ==
    op = "update" =>
        /\ ~Has(payload, "plugins")
        /\ Truthy(Prop(arg, "global")) => ~Has(payload, "global")
        /\ DOMAIN payload.f = DOMAIN arg.f \ {"plugins", "global"}
        /\ \A key \in DOMAIN payload.f : payload.f[key] = arg.f[key]

\* C29 witness: a delta with a global sub-map, a plugins sub-map and a status
\* was handed in, and the status alone is left of it.
C29_Witness ==
    /\ op = "update" /\ outcome = "ok"
    /\ Has(arg, "global") /\ Has(arg, "plugins") /\ Has(arg, "state")
    /\ ~Has(arg, "move")
    /\ payload = Plain([state |-> arg.f.state])
    /\ state.f.global # before.f.global /\ state.f.plugins # before.f.plugins

\* The value of the tree that is the state of the module m
StateOf(m) == Value(trees[modules[m].state], objects)

\* The tree s has every field of the schema and its maps are maps
Complete(s) ==
    /\ FullyPopulated(s)
    /\ IsObj(s.f.global) /\ IsObj(s.f.plugins) /\ IsObj(kinematics(s))

\* C23: before the first delta the tree is a complete instance of the schema:
\* the module the factory has just built for a connector holds a tree at the
\* defaults of the schema but for network.hostname, the connector's, and
\* network.name, the hostname in parentheses; the module built without a
\* connector holds DefaultMachineModel; neither lacks a field of the schema.
C23_InitialTreeComplete ==
    /\ op = "init" => StateOf(1) = DefaultMachineModel /\ Complete(StateOf(1))
    /\ op = "factory" /\ Truthy(arg) =>
           /\ StateOf(returned.value) =
                  [MachineModelDefaults EXCEPT
                      !.f.network.f.hostname = arg.f.hostname,
                      !.f.network.f.name = Str("(" \o arg.f.hostname.s \o ")")]
           /\ Complete(StateOf(returned.value))

\* C23 witness: the factory has built a module for the connector of the
\* machine mill, and its tree has the network name (mill) and the default of
\* the other network fields.
C23_Witness ==
    /\ op = "factory" /\ arg = Plain([hostname |-> Str("mill")])
    /\ StateOf(returned.value).f.network =
           Plain([corsSite |-> Null, hostname |-> Str("mill"), interfaces |-> Arr(<<>>),
                  name |-> Str("(mill)")])
    /\ StateOf(returned.value).f.move = MachineModelDefaults.f.move

\* C25: every call of the factory without a connector returns the one default
\* module, whose state is DefaultMachineModel, and makes no object; every
\* call with a connector returns a module that was not there before, whose
\* state is a tree that was not there before.
C25_FactoryModules ==
    [][op' = "factory" =>
        IF Truthy(arg')
        THEN /\ returned'.value \in DOMAIN modules' \ DOMAIN modules
             /\ modules'[returned'.value].state \in DOMAIN trees' \ DOMAIN trees
             /\ \A m \in DOMAIN modules : modules'[m] = modules[m]
             /\ \A t \in DOMAIN trees : trees'[t] = trees[t]
        ELSE /\ returned'.value = 1
             /\ modules'[1].state = 1
             /\ modules' = modules /\ trees' = trees]_vars

\* C25 witness: the factory was called without a connector after it had made
\* the modules of two connectors, and returned the default module; there are
\* three modules, each with a tree of its own.
C25_Witness ==
    /\ op = "factory" /\ arg = Null /\ returned.value = 1
    /\ Len(modules) = 3 /\ Len(trees) = 3
    /\ \A m \in DOMAIN modules : modules[m].state = m

\* C30: the models are isolated from one another: a mutation committed to the
\* module of a connector leaves the value of every tree but that module's
\* own as it was, DefaultMachineModel included, also when a plugin object or
\* a value of a delta was put into two of the trees before.
C30_ModelsIsolated ==
    [][op' \in {"update", "addPlugin", "removePlugin"} /\ Truthy(modules'[target'].connector) =>
        \A t \in DOMAIN trees \ {modules[target'].state} :
            Value(trees'[t], objects') = Value(trees[t], objects)]_vars

=============================================================================
